---- MODULE Spec2Model ----
(***************************************************************************)
(* Model of part-2-database-setup/app.py: a Flask application with two     *)
(* routes, GET / (home) and GET /test-db (test_db), over a SQLite store    *)
(* with two tables, user and todo.  Each request is a process; the steps   *)
(* of test_db are its database round trips, which requests served by       *)
(* different threads may interleave.                                       *)
(***************************************************************************)
EXTENDS Integers, Sequences, FiniteSets, TLC

\* Number of requests the server receives in a run.
MaxReq == 3

\* Number of requests the server handles at the same time.
MaxActive == 2

Req == 1..MaxReq

VARIABLES
  users,        \* committed rows of table user, in insertion order
  todos,        \* committed rows of table todo, in insertion order
  pc,           \* position of each request in its handler
  kind,         \* route of each request: "none", "home" or "test_db"
  branch,       \* outcome of the guard of test_db: "none", "seed" or "skip"
  user_ids,     \* test_db locals: <<user1.id, user2.id, user3.id>>
  all_users,    \* test_db local all_users
  practice,     \* test_db locals first_user and total_users
  all_todos,    \* test_db local all_todos
  resp,         \* response of each request
  store0,       \* history: the user table the process found at startup
  pre,          \* history: the store at the first step of each request
  interleaved   \* history: another request stepped during this request

vars == <<users, todos, pc, kind, branch, user_ids, all_users, practice,
          all_todos, resp, store0, pre, interleaved>>

\* A column left unset (phone of user1 and user3) is NULL.
None == "None"

----------------------------------------------------------------------------
(* models.py: tables and constraints *)

\* Columns of User that carry a uniqueness constraint besides the key.
UniqueColumns == {}

ConstraintsOK(table, rows) ==
  \A c \in UniqueColumns :
    /\ \A i \in 1..Len(rows) : \A j \in 1..Len(table) : rows[i][c] # table[j][c]
    /\ \A i, j \in 1..Len(rows) : i # j => rows[i][c] # rows[j][c]

\* A store file left by an earlier run that holds a single User row.
PreUser ==
  [id |-> 1, username |-> "user1", email |-> "user1@example.com",
   phone |-> None, password_hash |-> "pass"]

----------------------------------------------------------------------------
(* The ORM operations test_db uses *)

Count(table) == Len(table)

All(table) == table

\* Query.first(): the first row, or nothing; a sequence of length 0 or 1.
First(table) == IF table = <<>> THEN <<>> ELSE <<table[1]>>

RECURSIVE MaxId(_)
MaxId(table) ==
  IF table = <<>> THEN 0
  ELSE LET m == MaxId(Tail(table))
       IN IF Head(table).id > m THEN Head(table).id ELSE m

\* The keys an insert of n rows is assigned: the rowids after the largest.
NewIds(table, n) == [i \in 1..n |-> MaxId(table) + i]

\* A variant of AddAll that inserts only into an empty table.
AddAllIfEmpty(table, objs) ==
  IF table # <<>> THEN table
  ELSE table \o [i \in 1..Len(objs) |-> [id |-> NewIds(table, Len(objs))[i]] @@ objs[i]]

\* A variant of AddAll that writes the new rows over the table.
AddAllReplacing(table, objs) ==
  [i \in 1..Len(objs) |-> [id |-> NewIds(table, Len(objs))[i]] @@ objs[i]]

\* db.session.add_all(objs); db.session.commit()
AddAll(table, objs) ==
  table \o [i \in 1..Len(objs) |-> [id |-> NewIds(table, Len(objs))[i]] @@ objs[i]]

----------------------------------------------------------------------------
(* The seed data of test_db *)

\* A variant of SeedUsers in which the phone sits on user1.
SeedUsersPhoneOnFirst ==
  << [username |-> "user1", email |-> "user1@example.com",
      phone |-> "123-456-7890", password_hash |-> "pass"],
     [username |-> "user2", email |-> "user2@example.com",
      phone |-> None, password_hash |-> "pass"],
     [username |-> "user3", email |-> "user3@example.com",
      phone |-> None, password_hash |-> "pass"] >>

SeedUsers ==
  << [username |-> "user1", email |-> "user1@example.com",
      phone |-> None, password_hash |-> "pass"],
     [username |-> "user2", email |-> "user2@example.com",
      phone |-> "123-456-7890", password_hash |-> "pass"],
     [username |-> "user3", email |-> "user3@example.com",
      phone |-> None, password_hash |-> "pass"] >>

\* A variant of SeedTodos that gives every todo to the first user.
SeedTodosFirstOwner(ids) ==
  << [task_content |-> "Learn Flask", user_id |-> ids[1]],
     [task_content |-> "Learn SQLAlchemy", user_id |-> ids[1]],
     [task_content |-> "Build Todo App", user_id |-> ids[1]] >>

\* A variant of SeedTodos that takes the owners one key too far.
SeedTodosShifted(ids) ==
  << [task_content |-> "Learn Flask", user_id |-> ids[1] + 1],
     [task_content |-> "Learn SQLAlchemy", user_id |-> ids[2] + 1],
     [task_content |-> "Build Todo App", user_id |-> ids[3] + 1] >>

SeedTodos(ids) ==
  << [task_content |-> "Learn Flask", user_id |-> ids[1]],
     [task_content |-> "Learn SQLAlchemy", user_id |-> ids[2]],
     [task_content |-> "Build Todo App", user_id |-> ids[3]] >>

----------------------------------------------------------------------------
(* Requests *)

Store == [users |-> users, todos |-> todos]

NoStore == [users |-> <<>>, todos |-> <<>>]

NoResp == [status |-> 0, users |-> <<>>, todos |-> <<>>]

Active(r) == pc[r] \notin {"idle", "done", "failed"}

\* Request r takes a step: every other request in flight has been interleaved.
Interleave(r) ==
  interleaved' = [q \in Req |-> interleaved[q] \/ (q # r /\ Active(q))]

\* Request r takes its first step; requests are numbered as they arrive.
Begin(r, k) ==
  /\ pc[r] = "idle"
  /\ \A q \in 1..(r - 1) : pc[q] # "idle"
  /\ Cardinality({q \in Req : Active(q)}) < MaxActive
  /\ kind' = [kind EXCEPT ![r] = k]
  /\ pre' = [pre EXCEPT ![r] = Store]
  /\ Interleave(r)

Init ==
  /\ users \in {<<>>, <<PreUser>>}
  /\ store0 = users
  /\ todos = <<>>
  /\ pc = [r \in Req |-> "idle"]
  /\ kind = [r \in Req |-> "none"]
  /\ branch = [r \in Req |-> "none"]
  /\ user_ids = [r \in Req |-> <<>>]
  /\ all_users = [r \in Req |-> <<>>]
  /\ practice = [r \in Req |-> [first_user |-> <<>>, total_users |-> 0]]
  /\ all_todos = [r \in Req |-> <<>>]
  /\ resp = [r \in Req |-> NoResp]
  /\ pre = [r \in Req |-> NoStore]
  /\ interleaved = [r \in Req |-> FALSE]

\* A variant of home that seeds the users as a side effect.
HomeSeeding(r) ==
  /\ Begin(r, "home")
  /\ users' = AddAll(users, SeedUsers)
  /\ pc' = [pc EXCEPT ![r] = "done"]
  /\ resp' = [resp EXCEPT ![r] = [status |-> 200, users |-> <<>>, todos |-> <<>>]]
  /\ UNCHANGED <<todos, branch, user_ids, all_users, practice, all_todos, store0>>

\* GET /: render the static page index.html.
Home(r) ==
  /\ Begin(r, "home")
  /\ pc' = [pc EXCEPT ![r] = "done"]
  /\ resp' = [resp EXCEPT ![r] = [status |-> 200, users |-> <<>>, todos |-> <<>>]]
  /\ UNCHANGED <<users, todos, branch, user_ids, all_users, practice,
                 all_todos, store0>>

\* A variant of the guard that looks at the Todo count.
GuardOnTodos(r) ==
  /\ Begin(r, "test_db")
  /\ IF Count(todos) = 0
       THEN /\ branch' = [branch EXCEPT ![r] = "seed"]
            /\ pc' = [pc EXCEPT ![r] = "commit_users"]
       ELSE /\ branch' = [branch EXCEPT ![r] = "skip"]
            /\ pc' = [pc EXCEPT ![r] = "query_users"]
  /\ UNCHANGED <<users, todos, user_ids, all_users, practice, all_todos,
                 resp, store0>>

\* A variant of test_db without the guard: every request seeds.
GuardMissing(r) ==
  /\ Begin(r, "test_db")
  /\ branch' = [branch EXCEPT ![r] = "seed"]
  /\ pc' = [pc EXCEPT ![r] = "commit_users"]
  /\ UNCHANGED <<users, todos, user_ids, all_users, practice, all_todos,
                 resp, store0>>

\* GET /test-db, the guard: if User.query.count() == 0.
Guard(r) ==
  /\ Begin(r, "test_db")
  /\ IF Count(users) = 0
       THEN /\ branch' = [branch EXCEPT ![r] = "seed"]
            /\ pc' = [pc EXCEPT ![r] = "commit_users"]
       ELSE /\ branch' = [branch EXCEPT ![r] = "skip"]
            /\ pc' = [pc EXCEPT ![r] = "query_users"]
  /\ UNCHANGED <<users, todos, user_ids, all_users, practice, all_todos,
                 resp, store0>>

\* The request fails: the exception propagates and the client gets a 500.
Abort(r) ==
  /\ pc' = [pc EXCEPT ![r] = "failed"]
  /\ resp' = [resp EXCEPT ![r] = [status |-> 500, users |-> <<>>, todos |-> <<>>]]
  /\ Interleave(r)
  /\ UNCHANGED <<users, todos, kind, branch, user_ids, all_users, practice,
                 all_todos, store0, pre>>

\* Build user1, user2, user3; db.session.add_all(...); db.session.commit().
CommitUsers(r) ==
  /\ pc[r] = "commit_users"
  /\ ConstraintsOK(users, SeedUsers)
  /\ users' = AddAll(users, SeedUsers)
  /\ user_ids' = [user_ids EXCEPT ![r] = NewIds(users, Len(SeedUsers))]
  /\ pc' = [pc EXCEPT ![r] = "commit_todos"]
  /\ Interleave(r)
  /\ UNCHANGED <<todos, kind, branch, all_users, practice, all_todos, resp,
                 store0, pre>>

\* The commit of the users raises: nothing is inserted.
FailCommitUsers(r) ==
  /\ pc[r] = "commit_users"
  /\ Abort(r)

\* Build todo1, todo2, todo3 from the users' keys; add_all; commit.
CommitTodos(r) ==
  /\ pc[r] = "commit_todos"
  /\ todos' = AddAll(todos, SeedTodos(user_ids[r]))
  /\ pc' = [pc EXCEPT ![r] = "query_users"]
  /\ Interleave(r)
  /\ UNCHANGED <<users, kind, branch, user_ids, all_users, practice,
                 all_todos, resp, store0, pre>>

\* A variant of the failure that takes the request's users back out.
FailCommitTodosRollback(r) ==
  /\ pc[r] = "commit_todos"
  /\ users' = SelectSeq(users, LAMBDA u : \A i \in 1..3 : u.id # user_ids[r][i])
  /\ pc' = [pc EXCEPT ![r] = "failed"]
  /\ resp' = [resp EXCEPT ![r] = [status |-> 500, users |-> <<>>, todos |-> <<>>]]
  /\ Interleave(r)
  /\ UNCHANGED <<todos, kind, branch, user_ids, all_users, practice,
                 all_todos, store0, pre>>

\* The request fails after the users' commit and before the todos' commit.
FailCommitTodos(r) ==
  /\ pc[r] = "commit_todos"
  /\ Abort(r)

\* A variant of the queries that lists the users found before seeding.
QueryUsersBeforeSeed(r) ==
  /\ pc[r] = "query_users"
  /\ all_users' = [all_users EXCEPT ![r] = pre[r].users]
  /\ practice' = [practice EXCEPT ![r] =
                    [first_user |-> First(users), total_users |-> Count(users)]]
  /\ pc' = [pc EXCEPT ![r] = "query_todos"]
  /\ Interleave(r)
  /\ UNCHANGED <<users, todos, kind, branch, user_ids, all_todos, resp,
                 store0, pre>>

\* all_users = User.query.all(); first_user = User.query.first();
\* total_users = User.query.count().  The last two are only printed, so the
\* three reads of the user table are taken as one step.
QueryUsers(r) ==
  /\ pc[r] = "query_users"
  /\ all_users' = [all_users EXCEPT ![r] = All(users)]
  /\ practice' = [practice EXCEPT ![r] =
                    [first_user |-> First(users), total_users |-> Count(users)]]
  /\ pc' = [pc EXCEPT ![r] = "query_todos"]
  /\ Interleave(r)
  /\ UNCHANGED <<users, todos, kind, branch, user_ids, all_todos, resp,
                 store0, pre>>

\* The response: test_db.html rendered with users=us, todos=ts.
Rendered(us, ts) == [status |-> 200, users |-> us, todos |-> ts]

\* all_todos = Todo.query.all();
\* return render_template('test_db.html', users=all_users, todos=all_todos)
QueryTodos(r) ==
  /\ pc[r] = "query_todos"
  /\ all_todos' = [all_todos EXCEPT ![r] = All(todos)]
  /\ resp' = [resp EXCEPT ![r] = Rendered(all_users[r], all_todos'[r])]
  /\ pc' = [pc EXCEPT ![r] = "done"]
  /\ Interleave(r)
  /\ UNCHANGED <<users, todos, kind, branch, user_ids, all_users, practice,
                 store0, pre>>

Next ==
  \E r \in Req :
    \/ Home(r)
    \/ Guard(r)
    \/ CommitUsers(r)
    \/ FailCommitUsers(r)
    \/ CommitTodos(r)
    \/ FailCommitTodos(r)
    \/ QueryUsers(r)
    \/ QueryTodos(r)

Spec == Init /\ [][Next]_vars

----------------------------------------------------------------------------
(* Properties *)

IsPrefix(s, t) == Len(s) <= Len(t) /\ SubSeq(t, 1, Len(s)) = s

\* The process started on a freshly initialized store.
Fresh == store0 = <<>>

\* No request has taken a step while another was in flight.
Sequential == \A q \in Req : ~interleaved[q]

\* Request r is a test_db request that returned its page.
Completed(r) == kind[r] = "test_db" /\ pc[r] = "done"

\* Request r has committed its users / its todos.
CommittedUsers(r) == user_ids[r] # <<>>

CommittedTodos(r) ==
  /\ branch[r] = "seed"
  /\ pc[r] \in {"query_users", "query_todos", "done"}

\* Request r failed between the two commits.
FailedBetweenCommits(r) == pc[r] = "failed" /\ CommittedUsers(r)

\* Every owner reference of ts is the key of a row of us.
OwnersResolve(us, ts) ==
  \A i \in 1..Len(ts) : \E j \in 1..Len(us) : us[j].id = ts[i].user_id

OwnersDistinct(ts) ==
  \A i, j \in 1..Len(ts) : i # j => ts[i].user_id # ts[j].user_id

\* The store one request leaves when it seeds a fresh store by itself.
SeededStore ==
  [users |->
     << [id |-> 1, username |-> "user1", email |-> "user1@example.com",
         phone |-> None, password_hash |-> "pass"],
        [id |-> 2, username |-> "user2", email |-> "user2@example.com",
         phone |-> "123-456-7890", password_hash |-> "pass"],
        [id |-> 3, username |-> "user3", email |-> "user3@example.com",
         phone |-> None, password_hash |-> "pass"] >>,
   todos |->
     << [id |-> 1, task_content |-> "Learn Flask", user_id |-> 1],
        [id |-> 2, task_content |-> "Learn SQLAlchemy", user_id |-> 2],
        [id |-> 3, task_content |-> "Build Todo App", user_id |-> 3] >>]

\* Number of rows of table whose column c holds v.
Occurrences(table, c, v) == Cardinality({i \in 1..Len(table) : table[i][c] = v})

\* C1: a GET /test-db request that begins on an empty store and runs to
\* completion with no other request interleaved leaves exactly 3 User rows
\* and 3 Todo rows, and the todos' owners are three distinct existing users.
C1_FreshSeedThreeAndThree ==
  [][\A r \in Req :
       (pc[r] = "query_todos" /\ pc'[r] = "done" /\ pre[r] = NoStore
          /\ ~interleaved'[r])
       => /\ Len(users') = 3
          /\ Len(todos') = 3
          /\ OwnersResolve(users', todos')
          /\ OwnersDistinct(todos')]_vars

C1_Witness ==
  \E r \in Req :
    /\ Completed(r) /\ branch[r] = "seed"
    /\ pre[r] = NoStore /\ ~interleaved[r]
    /\ Len(users) = 3 /\ Len(todos) = 3

\* C2: in a sequential run on a fresh store, once a GET /test-db that began
\* on the empty store has completed, the store holds the same 3 users and
\* 3 todos in every later state, whatever further requests are made.
C2_SeededPathIdempotent ==
  (/\ Fresh
   /\ Sequential
   /\ \E q \in Req : Completed(q) /\ pre[q] = NoStore)
  => (users = SeededStore.users /\ todos = SeededStore.todos)

C2_Witness ==
  /\ Fresh
  /\ Sequential
  /\ \E q, r \in Req :
       /\ q # r
       /\ Completed(q) /\ pre[q] = NoStore
       /\ Completed(r) /\ branch[r] = "skip" /\ pre[r] = SeededStore
  /\ Len(users) = 3 /\ Len(todos) = 3

\* C3: the rows a seeding request commits are user1, user2, user3, of which
\* user2 alone has the phone 123-456-7890, and the todos Learn Flask,
\* Learn SQLAlchemy, Build Todo App owned by user1, user2, user3 in order.
C3_SeedContents ==
  \A r \in Req :
    /\ CommittedUsers(r) =>
         \E k \in 1..Len(users) :
           /\ k + 2 <= Len(users)
           /\ \A i \in 1..3 : users[k + i - 1].id = user_ids[r][i]
           /\ users[k].username = "user1" /\ users[k].phone = None
           /\ users[k + 1].username = "user2"
           /\ users[k + 1].phone = "123-456-7890"
           /\ users[k + 2].username = "user3" /\ users[k + 2].phone = None
    /\ CommittedTodos(r) =>
         \E k \in 1..Len(todos) :
           /\ k + 2 <= Len(todos)
           /\ \A i \in 1..3 : todos[k + i - 1].user_id = user_ids[r][i]
           /\ todos[k].task_content = "Learn Flask"
           /\ todos[k + 1].task_content = "Learn SQLAlchemy"
           /\ todos[k + 2].task_content = "Build Todo App"
           /\ Cardinality({i \in 1..Len(todos) :
                 \E j \in 1..3 : todos[i].user_id = user_ids[r][j]}) = 3

C3_Witness ==
  \E r \in Req :
    /\ Completed(r) /\ CommittedUsers(r) /\ CommittedTodos(r)
    /\ pre[r] = NoStore
    /\ users = SeededStore.users /\ todos = SeededStore.todos

\* C4: on a store that held one User row and no Todo row at startup, no
\* request inserts anything: the store keeps its one user and zero todos.
C4_OneUserNeverSeeded ==
  store0 = <<PreUser>> =>
    /\ users = <<PreUser>>
    /\ todos = <<>>
    /\ \A r \in Req : branch[r] # "seed"

C4_Witness ==
  /\ store0 = <<PreUser>>
  /\ \E q, r \in Req : q # r /\ Completed(q) /\ Completed(r)
  /\ Len(users) = 1 /\ Len(todos) = 0

\* C5: GET / answers 200 whatever the store holds and changes neither table.
C5_HomeNoSideEffect ==
  [][\A r \in Req :
       (pc[r] = "idle" /\ kind'[r] = "home")
       => /\ users' = users
          /\ todos' = todos
          /\ pc'[r] = "done"
          /\ resp'[r].status = 200]_vars

C5_Witness ==
  \E r \in Req :
    /\ kind[r] = "home" /\ pc[r] = "done" /\ resp[r].status = 200
    /\ Len(pre[r].users) = 6
    /\ Occurrences(pre[r].users, "username", "user1") = 2

\* C6: a GET /test-db that completes answers 200 with lists that are rows
\* of the store in store order; when no other request was interleaved the
\* lists are the whole tables as the request leaves them, so the request
\* that seeds a fresh store lists its own 3 users and 3 todos.
C6_RenderedListsAreTheStore ==
  [][\A r \in Req :
       (pc[r] = "query_todos" /\ pc'[r] = "done")
       => /\ resp'[r].status = 200
          /\ IsPrefix(resp'[r].users, users')
          /\ IsPrefix(resp'[r].todos, todos')
          /\ ~interleaved'[r] =>
               /\ resp'[r].users = users'
               /\ resp'[r].todos = todos'
               /\ pre[r] = NoStore =>
                    Len(resp'[r].users) = 3 /\ Len(resp'[r].todos) = 3]_vars

C6_Witness ==
  \E r \in Req :
    /\ Completed(r) /\ branch[r] = "seed" /\ ~interleaved[r]
    /\ resp[r].status = 200
    /\ Len(resp[r].users) = 3 /\ Len(resp[r].todos) = 3

\* C7: from an empty store, in every reachable state every committed Todo
\* row's owner reference is the key of a committed User row.
C7_ReferentialIntegrity ==
  Fresh => OwnersResolve(users, todos)

C7_Witness ==
  /\ Fresh
  /\ \E r \in Req : FailedBetweenCommits(r)
  /\ Len(users) = 6 /\ Len(todos) = 3
  /\ OwnersResolve(users, todos)

\* The store holds users and no todos, and no request is about to insert.
PartialSeed ==
  /\ users # <<>>
  /\ todos = <<>>
  /\ \A q \in Req : pc[q] \notin {"commit_users", "commit_todos"}

\* Request r alone took the seeding branch and failed between the commits.
OnlySeederFailed(r) ==
  /\ Fresh
  /\ FailedBetweenCommits(r)
  /\ \A q \in Req \ {r} : pre[q].users # <<>> \/ pc[q] = "idle" \/ kind[q] = "home"

\* C8: when the one seeding request fails after committing the users and
\* before committing the todos, the store holds 3 users and 0 todos, and
\* that partial seed is permanent: no later request adds a todo.
C8_PartialSeedPermanent ==
  [][/\ PartialSeed => PartialSeed'
     /\ \A r \in Req :
          OnlySeederFailed(r)' => (Len(users') = 3 /\ PartialSeed')]_vars

C8_Witness ==
  \E r, q \in Req :
    /\ OnlySeederFailed(r)
    /\ Completed(q) /\ branch[q] = "skip"
    /\ Len(pre[q].users) = 3 /\ pre[q].todos = <<>>
    /\ Len(resp[q].users) = 3 /\ resp[q].todos = <<>>
    /\ Len(users) = 3 /\ todos = <<>>

\* C9: on a fresh store every request whose guard ran before any commit of
\* users takes the seeding branch, and every commit of a seeding request
\* succeeds in full: the store holds 3 users per commit of users, each seed
\* username once per commit, and 3 todos per commit of todos.
C9_RacingSeedsDuplicate ==
  Fresh =>
    LET nu == Cardinality({r \in Req : CommittedUsers(r)})
        nt == Cardinality({r \in Req : CommittedTodos(r)})
    IN /\ \A r \in Req :
            (kind[r] = "test_db" /\ pre[r].users = <<>>) => branch[r] = "seed"
       /\ Len(users) = 3 * nu
       /\ \A n \in {"user1", "user2", "user3"} :
            Occurrences(users, "username", n) = nu
       /\ Len(todos) = 3 * nt

C9_Witness ==
  /\ Fresh
  /\ Len(users) = 6
  /\ \A n \in {"user1", "user2", "user3"} : Occurrences(users, "username", n) = 2
  /\ Len(todos) = 6
  /\ \E q, r \in Req : q # r /\ Completed(q) /\ Completed(r)

\* C10: the tables only grow and their rows never change; rows are inserted
\* only by a commit of a request in the seeding branch of test_db, and a
\* request whose guard found users changes neither table.
C10_RowsOnlyGrow ==
  [][/\ IsPrefix(users, users')
     /\ IsPrefix(todos, todos')
     /\ (users' # users \/ todos' # todos) =>
          \E r \in Req :
            /\ kind[r] = "test_db" /\ branch[r] = "seed"
            /\ pc[r] \in {"commit_users", "commit_todos"}
            /\ pc'[r] # pc[r]
     /\ \A r \in Req :
          (branch'[r] = "skip" /\ pc'[r] # pc[r])
          => (users' = users /\ todos' = todos)]_vars

C10_Witness ==
  /\ Len(users) = 6 /\ Len(todos) = 6
  /\ IsPrefix(SeededStore.users, users)
  /\ \E r \in Req : Completed(r) /\ branch[r] = "skip"

====
